---- MODULE Spec2Model ----
(***************************************************************************)
(* USSD Data Manager: the role-based catalog editor of src/src/App.tsx     *)
(* with its change-request ledger (draft -> pending -> approved/rejected), *)
(* and the import/export helpers of src/src/utils.ts; and the read API of   *)
(* src/api/index.js (lookup, services, compare) over its dataset, with the *)
(* servers around it: the full CRUD Express server, the read-only Express  *)
(* server, the Netlify handler, the secure server, and the API client that *)
(* syncs the catalog to the full server.                                   *)
(*                                                                         *)
(* One action per handler of the App component.  A handler runs against    *)
(* the state of the render it was created in; every handler call below is  *)
(* a separate user event, so it sees the state left by the previous one.   *)
(* The wall clock is read through nowISO()/Date.now(); two user events     *)
(* never fall in the same millisecond, so a handler that reads the clock   *)
(* sees a strictly later time than every handler before it.  A handler     *)
(* that returns early reads no clock.                                      *)
(***************************************************************************)
EXTENDS Integers, Sequences, FiniteSets, TLC

\* ---------------------------------------------------------------- bounds
MaxTime == 4          \* clock readings of the ledger workflow (Spec)
MaxAppTime == 3       \* clock readings of the whole application (SpecApp)
MaxRepTime == 5       \* clock readings of one representative's session (SpecRep)
MaxImportTime == 2    \* clock readings of the export and import runs (SpecImport)
VersionLimit == 5     \* [rec, ...versions].slice(0, 5)

\* ------------------------------------------------------- types.ts / utils.ts
TELCOS == {"mtn", "telecel", "airteltigo", "glo"}
Role == {"admin"} \cup TELCOS
Undefined == "<undefined>"
NoSession == [role |-> "<null>", displayName |-> ""]
\* an absent request (find() returning undefined) and an absent timestamp
NoRequest == 0
NoTime == -1

\* `telcos.${telco}.${key}`, kept as the segments that split('.') recovers
FieldPath(telco, key) == <<"telcos", telco, key>>

\* a JSON object is a function from its own keys to their values
Has(obj, k) == k \in DOMAIN obj
\* obj[k] ?? dflt
Coalesce(obj, k, dflt) == IF Has(obj, k) THEN obj[k] ELSE dflt
EmptyObject == [k \in {} |-> ""]

sampleData ==
  [check_balance |->
     [service_name |-> "Check Airtime Balance",
      description  |-> "Enter the USSD code customers dial to check their main airtime balance.",
      mtn        |-> [code |-> "*124#", explanation |-> "Checks your main airtime balance on MTN."],
      telecel    |-> [code |-> "*124#", explanation |-> "Checks your main airtime balance on Telecel."],
      airteltigo |-> [code |-> "*134#", explanation |-> "Checks your main airtime balance on AirtelTigo."],
      glo        |-> [code |-> "*124#", explanation |-> "Checks your main airtime balance on Glo."]],
   borrow_credit |->
     [service_name |-> "Borrow Credit / Airtime",
      description  |-> "Provide the emergency credit/airtime borrowing service code.",
      mtn        |-> [code |-> "*155#", explanation |-> "Lends you airtime to be paid back on your next recharge."],
      telecel    |-> [code |-> "*505#", explanation |-> "Telecel's 'SOS Credit' service."],
      airteltigo |-> [code |-> "*130#", explanation |-> "AirtelTigo's 'SOS Credit' service."],
      glo        |-> [code |-> "*305#", explanation |-> "Glo's 'Borrow Me Credit' service."]]]

\* mutant: the display name is always taken from the key
normalizeEntryUnnamed(service_id, obj, t) ==
  [service_id   |-> service_id,
   service_name |-> service_id,
   description  |-> IF Has(obj, "description") /\ obj["description"] # ""
                    THEN obj["description"] ELSE Undefined,
   telcos       |-> [key \in TELCOS |->
                       LET tt == Coalesce(obj, key, EmptyObject)
                       IN  [code        |-> Coalesce(tt, "code", ""),
                            explanation |-> Coalesce(tt, "explanation", "")]],
   active       |-> TRUE,
   lastUpdated  |-> t]

\* USSD_DATA of the API: the sample data without the guidance notes
USSD_DATA ==
  [service_id \in DOMAIN sampleData |->
     [k \in DOMAIN sampleData[service_id] \ {"description"} |-> sampleData[service_id][k]]]

\* before the first request
NoResponse == [status |-> 0, body |-> <<>>]

\* a server started without ENABLE_WRITE_OPERATIONS and API_KEY
NoEnv == [ENABLE_WRITE_OPERATIONS |-> Undefined, API_KEY |-> Undefined]

\* one entry of normalizeImported's result, built at time t
normalizeEntry(service_id, obj, t) ==
  [service_id   |-> service_id,
   service_name |-> Coalesce(obj, "service_name", service_id),
   description  |-> IF Has(obj, "description") /\ obj["description"] # ""
                    THEN obj["description"] ELSE Undefined,
   telcos       |-> [key \in TELCOS |->
                       LET tt == Coalesce(obj, key, EmptyObject)
                       IN  [code        |-> Coalesce(tt, "code", ""),
                            explanation |-> Coalesce(tt, "explanation", "")]],
   active       |-> TRUE,
   lastUpdated  |-> t]

\* jsonData is an object whose entries are all objects
normalizeImported(jsonData, t) ==
  [service_id \in DOMAIN jsonData |-> normalizeEntry(service_id, jsonData[service_id], t)]

\* ---------------------------------------------------------------- state
VARIABLES
  services,        \* useState<ServiceMap>: the catalog
  changeRequests,  \* useState<ChangeRequestMap>: the ledger, keyed by request id
  versions,        \* useState<VersionRecord[]>
  session,         \* useState<Session | null>
  now,             \* the wall clock, in milliseconds
  last,            \* the handler called last, with its arguments
  data,            \* the API server's dataset (USSD_DATA, the data file)
  response,        \* the HTTP response the API server sent last
  env              \* process.env of the API server, read when it starts

vars == <<services, changeRequests, versions, session, now, last, data, response, env>>

role == session.role

\* the handler called last, its arguments, and the message of the window.alert
\* it raised, if it raised one (every handler returns undefined)
NoAlert == "<no alert>"
\* the handlers of the App component send the API server nothing
ServerIdle == UNCHANGED <<data, response, env>>
Alerted(op, args, message) ==
  /\ last' = [op |-> op, args |-> args, alert |-> message]
  /\ ServerIdle
Called(op, args) == Alerted(op, args, NoAlert)

Init ==
  /\ services = normalizeImported(sampleData, 0)
  /\ changeRequests = [id \in {} |-> Undefined]
  /\ versions = <<>>
  /\ session = NoSession
  /\ now = 1
  /\ last = [op |-> "init", args |-> <<>>, alert |-> NoAlert]
  /\ data = USSD_DATA
  /\ response = NoResponse
  /\ env = NoEnv

\* ------------------------------------------------------------- handlers
\* the state a handler leaves alone when it returns early
Return == UNCHANGED <<services, changeRequests, versions, session, now>>

\* Login's onLogin, and the Logout button
onLogin(sess) ==
  /\ session = NoSession
  /\ session' = sess
  /\ Called("onLogin", <<sess.role>>)
  /\ UNCHANGED <<services, changeRequests, versions, now>>

onLogout ==
  /\ session # NoSession
  /\ session' = NoSession
  /\ Called("onLogout", <<>>)
  /\ UNCHANGED <<services, changeRequests, versions, now>>

\* session?.displayName || dflt
displayNameOr(dflt) == IF session.displayName # "" THEN session.displayName ELSE dflt

\* request.status of a request that may be absent
statusOf(requestId) ==
  IF requestId \in DOMAIN changeRequests THEN changeRequests[requestId].status ELSE Undefined

\* `cr_${Date.now()}_${random}`: fresh, and ordered like the creation times
generateChangeRequestId == now

\* { ...changeRequests, [requestId]: request }
withRequest(requestId, request) ==
  [r \in DOMAIN changeRequests \cup {requestId} |->
     IF r = requestId THEN request ELSE changeRequests[r]]

\* mutant: any logged-in role may edit any network's field
canEditTelcoAnyRole(telco) == role \in Role

canEditTelco(telco) == role = "admin" \/ role = telco

\* mutant: the status test of the find() is dropped
existingDraftAnyStatus(id, telco, key) ==
  LET hits == { r \in DOMAIN changeRequests :
                  /\ changeRequests[r].serviceId = id
                  /\ changeRequests[r].field = FieldPath(telco, key) }
  IN  IF hits = {} THEN NoRequest
      ELSE CHOOSE r \in hits : \A q \in hits : r <= q

\* Object.values(changeRequests).find(...): the first match in insertion order
existingDraft(id, telco, key) ==
  LET hits == { r \in DOMAIN changeRequests :
                  /\ changeRequests[r].serviceId = id
                  /\ changeRequests[r].field = FieldPath(telco, key)
                  /\ changeRequests[r].status = "draft" }
  IN  IF hits = {} THEN NoRequest
      ELSE CHOOSE r \in hits : \A q \in hits : r <= q

newDraft(requestId, id, telco, key, value) ==
  [id          |-> requestId,
   serviceId   |-> id,
   field       |-> FieldPath(telco, key),
   oldValue    |-> services[id].telcos[telco][key],
   newValue    |-> value,
   requestedBy |-> displayNameOr("Unknown User"),
   requestedAt |-> now,
   status      |-> "draft",
   reviewedBy  |-> Undefined,
   reviewedAt  |-> NoTime,
   comments    |-> Undefined]

\* mutant: the leaf is written but lastUpdated keeps its value
directEditUnstamped(id, telco, key, value) ==
  [services EXCEPT ![id].telcos[telco][key] = value]

\* the catalog after admin's direct edit: s.telcos[telco][key] = value;
\* s.lastUpdated = nowISO()
directEdit(id, telco, key, value) ==
  [services EXCEPT ![id].telcos[telco][key] = value, ![id].lastUpdated = now]

setTelcoField(id, telco, key, value) ==
  /\ Called("setTelcoField", <<id, telco, key, value>>)
  /\ IF ~canEditTelco(telco) \/ id \notin DOMAIN services
     THEN Return
     ELSE IF role = "admin"
     THEN /\ services' = directEdit(id, telco, key, value)
          /\ now' = now + 1
          /\ UNCHANGED <<changeRequests, versions, session>>
     ELSE LET draft == existingDraft(id, telco, key)
          IN  /\ changeRequests' =
                   IF draft # NoRequest
                   THEN [changeRequests EXCEPT ![draft].newValue = value,
                                               ![draft].requestedAt = now]
                   ELSE withRequest(generateChangeRequestId,
                                    newDraft(generateChangeRequestId, id, telco, key, value))
              /\ now' = now + 1
              /\ UNCHANGED <<services, versions, session>>

\* mutant: only the existence of the request is tested
isDraftUnchecked(requestId) == requestId \in DOMAIN changeRequests

\* !request || request.status !== 'draft', negated
isDraft(requestId) == statusOf(requestId) = "draft"

\* updatedRequest of submitDraftChange
submitted(request) == [request EXCEPT !.status = "pending", !.requestedAt = now]

submitDraftChange(requestId) ==
  IF ~isDraft(requestId)
  THEN Called("submitDraftChange", <<requestId>>) /\ Return
  ELSE /\ Alerted("submitDraftChange", <<requestId>>,
                  "Change request submitted for admin review!")
       /\ changeRequests' = [changeRequests EXCEPT ![requestId] = submitted(@)]
       /\ now' = now + 1
       /\ UNCHANGED <<services, versions, session>>

cancelDraftChange(requestId) ==
  /\ Called("cancelDraftChange", <<requestId>>)
  /\ changeRequests' = [r \in DOMAIN changeRequests \ {requestId} |-> changeRequests[r]]
  /\ UNCHANGED <<services, versions, session, now>>

\* mutant: only the existence of the request is tested
isPendingUnchecked(requestId) == requestId \in DOMAIN changeRequests

isPending(requestId) == statusOf(requestId) = "pending"

\* mutant: the request goes back to draft with the requestedAt it had
recalledUnstamped(request) == [request EXCEPT !.status = "draft"]

\* updatedRequest of recallPendingChange
recalled(request) == [request EXCEPT !.status = "draft", !.requestedAt = now]

recallPendingChange(requestId) ==
  IF ~isPending(requestId)
  THEN Called("recallPendingChange", <<requestId>>) /\ Return
  ELSE /\ Alerted("recallPendingChange", <<requestId>>,
                  "Change recalled! You can now edit and resubmit.")
       /\ changeRequests' = [changeRequests EXCEPT ![requestId] = recalled(@)]
       /\ now' = now + 1
       /\ UNCHANGED <<services, versions, session>>

\* mutant: the role test is dropped
canApproveAnyRole(requestId) == statusOf(requestId) = "pending"

canApprove(requestId) == role = "admin" /\ statusOf(requestId) = "pending"

\* mutant: the early return for a missing service is dropped
serviceMissingIgnored(request) == FALSE

\* const service = next[request.serviceId]; if (!service) return;
serviceMissing(request) == request.serviceId \notin DOMAIN services

\* const [, telco, key] = request.field.split('.')
fieldTelco(request) == request.field[2]
fieldKey(request) == request.field[3]

\* mutant: the leaf is written but lastUpdated is not stamped
applyApprovedUnstamped(request) ==
  [services EXCEPT
     ![request.serviceId].telcos[fieldTelco(request)][fieldKey(request)] = request.newValue]

\* the catalog after the approved value is written into its leaf
applyApproved(request) ==
  IF fieldTelco(request) \in TELCOS
  THEN [services EXCEPT
          ![request.serviceId].telcos[fieldTelco(request)][fieldKey(request)] = request.newValue,
          ![request.serviceId].lastUpdated = now]
  ELSE services

approveChangeRequest(requestId) ==
  IF ~canApprove(requestId)
  THEN Called("approveChangeRequest", <<requestId>>) /\ Return
  ELSE IF serviceMissing(changeRequests[requestId])
  THEN Called("approveChangeRequest", <<requestId>>) /\ Return
  ELSE    /\ Alerted("approveChangeRequest", <<requestId>>, "Change approved")
          /\ services' = applyApproved(changeRequests[requestId])
          /\ changeRequests' =
               [changeRequests EXCEPT ![requestId].status = "approved",
                                      ![requestId].reviewedBy = displayNameOr("Admin"),
                                      ![requestId].reviewedAt = now]
          /\ now' = now + 1
          /\ UNCHANGED <<versions, session>>

canReject(requestId) == role = "admin" /\ statusOf(requestId) = "pending"

\* mutant: the reviewer's comments are not stored
rejectedUncommented(request, comments) ==
  [request EXCEPT !.status = "rejected",
                  !.reviewedBy = displayNameOr("Admin"),
                  !.reviewedAt = now]

\* updatedRequest of rejectChangeRequest
rejected(request, comments) ==
  [request EXCEPT !.status = "rejected",
                  !.reviewedBy = displayNameOr("Admin"),
                  !.reviewedAt = now,
                  !.comments = comments]

rejectChangeRequest(requestId, comments) ==
  IF ~canReject(requestId)
  THEN Called("rejectChangeRequest", <<requestId, comments>>) /\ Return
  ELSE    /\ Alerted("rejectChangeRequest", <<requestId, comments>>, "Change rejected")
          /\ changeRequests' = [changeRequests EXCEPT ![requestId] = rejected(@, comments)]
          /\ now' = now + 1
          /\ UNCHANGED <<services, versions, session>>

removeService(id) ==
  /\ Called("removeService", <<id>>)
  /\ IF role # "admin"
     THEN Return
     ELSE /\ services' = [k \in DOMAIN services \ {id} |-> services[k]]
          /\ UNCHANGED <<changeRequests, versions, session, now>>

\* ---------------------------------------------------------------- inputs
Logins ==
  { [role |-> "admin",   displayName |-> "Esi"],
    [role |-> "mtn",     displayName |-> "Ama"],
    [role |-> "telecel", displayName |-> "Yaw"] }
EditIds == {"check_balance"}
EditFields == { <<"mtn", "code">>, <<"telecel", "code">> }
EditValues == {"*555#", "*777#"}
\* the request ids the rendered cards and panels can pass to a handler
LedgerIds == DOMAIN changeRequests
\* those, and an id the ledger does not hold
RequestIds == LedgerIds \cup {generateChangeRequestId}
\* comments?: string of rejectChangeRequest
RejectComments == {Undefined, "Wrong code."}

\* ------------------------------------------------- the ledger workflow
\* The main view, and with it every handler but onLogin, exists only while a
\* session does.  Handlers that read the clock are offered up to MaxTime.
LoggedIn == session # NoSession
ClockLeft == LoggedIn /\ now <= MaxTime

Next ==
  \/ \E sess \in Logins : onLogin(sess)
  \/ onLogout
  \/ ClockLeft /\ \E id \in EditIds, f \in EditFields, value \in EditValues :
       setTelcoField(id, f[1], f[2], value)
  \/ ClockLeft /\ \E requestId \in RequestIds : submitDraftChange(requestId)
  \/ LoggedIn /\ \E requestId \in LedgerIds : cancelDraftChange(requestId)
  \/ ClockLeft /\ \E requestId \in RequestIds : recallPendingChange(requestId)
  \/ ClockLeft /\ \E requestId \in RequestIds : approveChangeRequest(requestId)
  \/ ClockLeft /\ \E requestId \in RequestIds, comments \in RejectComments :
       rejectChangeRequest(requestId, comments)
  \/ LoggedIn /\ \E id \in EditIds : removeService(id)

Spec == Init /\ [][Next]_vars

\* ------------------------------------------------- catalog handlers
\* the id addService picks: new_service_1, new_service_2, ... first one free
newServiceId(idx) == "new_service_" \o ToString(idx)
firstFreeIndex ==
  CHOOSE idx \in 1..(Cardinality(DOMAIN services) + 1) :
    /\ newServiceId(idx) \notin DOMAIN services
    /\ \A j \in 1..(idx - 1) : newServiceId(j) \in DOMAIN services

addService ==
  /\ Called("addService", <<>>)
  /\ IF role # "admin"
     THEN Return
     ELSE LET sid == newServiceId(firstFreeIndex)
              entry == [service_id   |-> sid,
                        service_name |-> "New Service",
                        description  |-> "Provide guidance here for telco reps.",
                        telcos       |-> [t \in TELCOS |-> [code |-> "", explanation |-> ""]],
                        active       |-> TRUE,
                        lastUpdated  |-> now]
          IN  /\ services' = [k \in DOMAIN services \cup {sid} |->
                                IF k = sid THEN entry ELSE services[k]]
              /\ now' = now + 1
              /\ UNCHANGED <<changeRequests, versions, session>>

\* the fields only admin may set through setField
AdminFields == {"service_id", "service_name", "active"}

setField(id, field, value) ==
  /\ Called("setField", <<id, field, value>>)
  /\ IF id \notin DOMAIN services
     THEN Return
     ELSE IF role # "admin" /\ field \in AdminFields
     THEN Return
     ELSE /\ services' =
               IF field = "service_id" /\ value # id
               THEN [k \in (DOMAIN services \ {id}) \cup {value} |->
                       IF k = value
                       THEN [services[id] EXCEPT !.service_id = value, !.lastUpdated = now]
                       ELSE services[k]]
               ELSE [services EXCEPT ![id] =
                       [[services[id] EXCEPT ![field] = value] EXCEPT !.lastUpdated = now]]
          /\ now' = now + 1
          /\ UNCHANGED <<changeRequests, versions, session>>

\* a parsed JSON root: its kind, and its own enumerable entries (an array's
\* are keyed "0", "1", ...)
JsonObject(entries) == [kind |-> "object", entries |-> entries]
JsonArray(entries) == [kind |-> "array", entries |-> entries]

\* mutant: Array.isArray(jsonData) is not tested
invalidRootArrayAccepted(json) == json.kind \notin {"object", "array"}

\* normalizeImported throws on a root that is no plain object
invalidRoot(json) == json.kind # "object"

\* toOriginalSchema: the active services, keyed by their service_id (which is
\* the key they are stored under), without description, active, lastUpdated
toOriginalSchema(map) ==
  LET shown == { k \in DOMAIN map : map[k].active }
  IN  [service_id \in { map[k].service_id : k \in shown } |->
         LET s == map[CHOOSE k \in shown : map[k].service_id = service_id]
         IN  [service_name |-> s.service_name,
              mtn          |-> s.telcos.mtn,
              telecel      |-> s.telcos.telecel,
              airteltigo   |-> s.telcos.airteltigo,
              glo          |-> s.telcos.glo]]

\* toTelcoSubset: the one network's leaf of every active service
toTelcoSubset(map, telco) ==
  LET shown == { k \in DOMAIN map : map[k].active }
  IN  [service_id \in { map[k].service_id : k \in shown } |->
         LET s == map[CHOOSE k \in shown : map[k].service_id = service_id]
         IN  [code |-> s.telcos[telco].code, explanation |-> s.telcos[telco].explanation]]

\* the file exportJSON downloads under the current role
exportedFile ==
  JsonObject(IF role = "admin" THEN toOriginalSchema(services)
                               ELSE toTelcoSubset(services, role))

exportJSON ==
  /\ Called("exportJSON", <<exportedFile>>)
  /\ Return

\* Names every object inherits from Object.prototype: next[service_id] reads
\* them through the prototype chain of the freshly parsed copy.
ObjectPrototypeKeys == {"constructor", "toString", "__proto__"}

\* next[service_id] is truthy: an own entry, or an inherited member
found(map, service_id) ==
  service_id \in DOMAIN map \/ service_id \in ObjectPrototypeKeys

\* applyTelcoSubset throws a TypeError at next[service_id].telcos[telco] when
\* next[service_id] is an inherited member, which has no telcos
applyTelcoSubsetThrows(map, subset) ==
  \E service_id \in DOMAIN subset :
    found(map, service_id) /\ service_id \notin DOMAIN map

\* applyTelcoSubset: patch the one network's leaves of the services that exist
applyTelcoSubset(map, telco, subset, t) ==
  [service_id \in DOMAIN map |->
     IF service_id \in DOMAIN subset
     THEN LET patch == subset[service_id]
              tt == map[service_id].telcos[telco]
          IN  [map[service_id] EXCEPT
                 !.telcos[telco] = [code        |-> Coalesce(patch, "code", tt.code),
                                    explanation |-> Coalesce(patch, "explanation", tt.explanation)],
                 !.lastUpdated = t]
     ELSE map[service_id]]

\* reader.onload of handleImport, with the parsed file
handleImport(json) ==
  IF role = "admin"
  THEN IF invalidRoot(json)
       THEN Alerted("handleImport", <<json>>, "Import failed") /\ Return
       ELSE /\ Alerted("handleImport", <<json>>, "Import successful.")
            /\ services' = normalizeImported(json.entries, now)
            /\ now' = now + 1
            /\ UNCHANGED <<changeRequests, versions, session>>
  ELSE IF role \in TELCOS
  THEN IF applyTelcoSubsetThrows(services, json.entries)
       THEN Alerted("handleImport", <<json>>, "Import failed") /\ Return
       ELSE
       /\ Alerted("handleImport", <<json>>, "Import successful.")
       /\ services' = applyTelcoSubset(services, role, json.entries, now)
       /\ now' = now + 1
       /\ UNCHANGED <<changeRequests, versions, session>>
  ELSE Alerted("handleImport", <<json>>, "Import successful.") /\ Return

\* tsLabel: the local time to the second
tsLabel(d) == d \div 1000

Min(a, b) == IF a < b THEN a ELSE b

\* mutant: the snapshot is the catalog object itself
jsonCopyShared(map) == [shared |-> TRUE, entries |-> map]

\* JSON.parse(JSON.stringify(map)): the same entries in objects of their own,
\* which no later write to the catalog's objects reaches
jsonCopy(map) == [shared |-> FALSE, entries |-> map]

\* what a version record holds while the catalog is `map`: the entries of
\* its own objects, or those of the catalog's objects if it shares them
snapshotOf(rec, map) == IF rec.snapshot.shared THEN map ELSE rec.snapshot.entries

saveVersion ==
  /\ Alerted("saveVersion", <<>>, "Saved new version")
  /\ LET rec == [timestamp |-> now, label |-> tsLabel(now), snapshot |-> jsonCopy(services)]
         all == <<rec>> \o versions
     IN  versions' = SubSeq(all, 1, Min(Len(all), VersionLimit))
  /\ now' = now + 1
  /\ UNCHANGED <<services, changeRequests, session>>

\* i counts from 1 here, versions[i - 1] in the source
restoreVersion(i) ==
  IF i \notin DOMAIN versions
  THEN Called("restoreVersion", <<i>>) /\ Return
  ELSE /\ Alerted("restoreVersion", <<i>>, "Restored version")
       /\ services' = jsonCopy(snapshotOf(versions[i], services)).entries
       /\ UNCHANGED <<changeRequests, versions, session, now>>

\* --------------------------------------------- inputs of the application
AppLogins ==
  { [role |-> "admin", displayName |-> "Esi"],
    [role |-> "mtn",   displayName |-> "Ama"] }
ServiceIds == DOMAIN sampleData
AppEditFields == { <<"mtn", "code">>, <<"telecel", "code">> }
AppEditValues == {"*555#"}
SetFieldInputs ==
  { <<"service_id", "borrow_credit">>, <<"service_id", "airtime_balance">>,
    <<"service_name", "Balance">>, <<"active", FALSE>>, <<"description", "Dial code guide.">> }
\* the files offered to the import: a full export, a network subset, an array
ImportFiles == 1..3
importFile(n) ==
  CASE n = 1 -> JsonObject([check_balance |->
                             [service_name |-> "Balance",
                              mtn |-> [code |-> "*100#", explanation |-> "Balance on MTN."],
                              telecel |-> [code |-> "*200#"]]])
    [] n = 2 -> JsonObject([check_balance |-> [code |-> "*321#"],
                            no_such_service |-> [code |-> "*999#", explanation |-> "Nothing."]])
    [] n = 3 -> JsonArray([k \in {"0"} |-> [code |-> "*321#"]])

\* ------------------------------------------------- the whole application
AppClockLeft == LoggedIn /\ now <= MaxAppTime

NextApp ==
  \/ \E sess \in AppLogins : onLogin(sess)
  \/ onLogout
  \/ AppClockLeft /\ addService
  \/ LoggedIn /\ \E id \in EditIds : removeService(id)
  \/ AppClockLeft /\ \E id \in ServiceIds, fv \in SetFieldInputs : setField(id, fv[1], fv[2])
  \/ AppClockLeft /\ \E id \in EditIds, f \in AppEditFields, value \in AppEditValues :
       setTelcoField(id, f[1], f[2], value)
  \/ AppClockLeft /\ \E n \in ImportFiles : handleImport(importFile(n))
  \/ LoggedIn /\ exportJSON
  \/ AppClockLeft /\ saveVersion
  \/ LoggedIn /\ \E i \in DOMAIN versions : restoreVersion(i)
  \/ AppClockLeft /\ \E requestId \in LedgerIds : submitDraftChange(requestId)
  \/ LoggedIn /\ \E requestId \in LedgerIds : cancelDraftChange(requestId)
  \/ AppClockLeft /\ \E requestId \in LedgerIds : recallPendingChange(requestId)
  \/ AppClockLeft /\ \E requestId \in LedgerIds : approveChangeRequest(requestId)
  \/ AppClockLeft /\ \E requestId \in LedgerIds : rejectChangeRequest(requestId, Undefined)

SpecApp == Init /\ [][NextApp]_vars

\* ------------------------------------- one network representative's work
\* The MTN representative edits one field, submits, recalls and cancels.
RepLogins == { [role |-> "mtn", displayName |-> "Ama"] }
RepFields == { <<"mtn", "code">> }
RepValues == {"*555#"}
RepClockLeft == LoggedIn /\ now <= MaxRepTime

NextRep ==
  \/ \E sess \in RepLogins : onLogin(sess)
  \/ onLogout
  \/ RepClockLeft /\ \E id \in EditIds, f \in RepFields, value \in RepValues :
       setTelcoField(id, f[1], f[2], value)
  \/ RepClockLeft /\ \E requestId \in RequestIds : submitDraftChange(requestId)
  \/ LoggedIn /\ \E requestId \in LedgerIds : cancelDraftChange(requestId)
  \/ RepClockLeft /\ \E requestId \in RequestIds : recallPendingChange(requestId)

SpecRep == Init /\ [][NextRep]_vars

\* ------------------------------------------------- export and import
\* The catalogs the application is started on: localStorage holds any catalog
\* an earlier session saved.  Each service is stored under its service_id.
CatalogIds == {"check_balance", "send_money"}
Leaves ==
  { [code |-> "", explanation |-> ""],
    [code |-> "*124#", explanation |-> "Checks your balance."] }
CatalogEntries(service_id) ==
  { [service_id   |-> service_id,
     service_name |-> "Service " \o service_id,
     description  |-> description,
     telcos       |-> [t \in TELCOS |->
                         IF t = "mtn" THEN mtn
                         ELSE IF t = "glo" THEN glo
                         ELSE [code |-> "*100#", explanation |-> "On " \o t]],
     active       |-> active,
     lastUpdated  |-> 0] :
    description \in {Undefined, "Dial code guide."}, active \in BOOLEAN,
    mtn \in Leaves, glo \in Leaves }
Catalogs ==
  UNION { { [service_id \in ids |-> pick[service_id]] :
              pick \in [ids -> UNION { CatalogEntries(service_id) : service_id \in ids }] }
          : ids \in SUBSET CatalogIds }

\* every stored service sits under its own service_id
WellKeyed(map) == \A k \in DOMAIN map : map[k].service_id = k

InitImport ==
  /\ services \in { map \in Catalogs : WellKeyed(map) }
  /\ changeRequests = [id \in {} |-> Undefined]
  /\ versions = <<>>
  /\ session = NoSession
  /\ now = 1
  /\ last = [op |-> "init", args |-> <<>>, alert |-> NoAlert]
  /\ data = USSD_DATA
  /\ response = NoResponse
  /\ env = NoEnv

\* the files picked for import: the one just exported, a network subset naming
\* a service the catalog may lack, one naming an inherited member, an array
PickedFiles ==
  { exportedFile,
    JsonObject([check_balance |-> [code |-> "*321#"],
                no_such_service |-> [code |-> "*999#", explanation |-> "Nothing."]]),
    JsonObject([check_balance |-> [explanation |-> "Dial it."],
                constructor |-> [code |-> "*999#"]]),
    JsonArray([k \in {"0"} |-> [code |-> "*321#"]]) }

ImportClockLeft == LoggedIn /\ now <= MaxImportTime

NextImport ==
  \/ \E sess \in AppLogins : onLogin(sess)
  \/ onLogout
  \/ LoggedIn /\ exportJSON
  \/ ImportClockLeft /\ \E json \in PickedFiles : handleImport(json)

SpecImport == InitImport /\ [][NextImport]_vars

\* ------------------------------------------------------ the read API
\* String.prototype.trim and toLowerCase, character by character
Whitespace == {" "}
UpperCase == "ABCDEFGHIJKLMNOPQRSTUVWXYZ"
LowerCase == "abcdefghijklmnopqrstuvwxyz"
charAt(str, i) == SubSeq(str, i, i)

RECURSIVE trimStart(_)
trimStart(str) ==
  IF Len(str) > 0 /\ charAt(str, 1) \in Whitespace
  THEN trimStart(SubSeq(str, 2, Len(str)))
  ELSE str

RECURSIVE trimEnd(_)
trimEnd(str) ==
  IF Len(str) > 0 /\ charAt(str, Len(str)) \in Whitespace
  THEN trimEnd(SubSeq(str, 1, Len(str) - 1))
  ELSE str

trim(str) == trimEnd(trimStart(str))

lowerOf(c) ==
  IF \E i \in 1..Len(UpperCase) : charAt(UpperCase, i) = c
  THEN charAt(LowerCase, CHOOSE i \in 1..Len(UpperCase) : charAt(UpperCase, i) = c)
  ELSE c

RECURSIVE toLowerCase(_)
toLowerCase(str) ==
  IF Len(str) = 0 THEN ""
  ELSE lowerOf(charAt(str, 1)) \o toLowerCase(SubSeq(str, 2, Len(str)))

\* (n || '').trim().toLowerCase()
normalizeNetwork(n) == toLowerCase(trim(n))
normalizeService(str) == toLowerCase(trim(str))

\* data[sKey] is truthy: a service of the dataset, or a member the dataset
\* inherits from Object.prototype
hasService(dataset, sKey) == Has(dataset, sKey) \/ sKey \in ObjectPrototypeKeys

\* blob[key] is truthy: an own member that is an object or a non-empty string
\* (service_name is the one string member of a service), or an inherited one
hasMember(blob, key) ==
  \/ key \in ObjectPrototypeKeys
  \/ /\ Has(blob, key)
     /\ (key = "service_name" => blob[key] # "")

\* the members of a service read through data[sKey]: its own, or none when
\* data[sKey] is an inherited member of the dataset
blobOf(dataset, sKey) == IF Has(dataset, sKey) THEN dataset[sKey] ELSE EmptyObject
\* blob[nKey] of such a value, for nKey one of the four networks
entryOf(dataset, sKey, nKey) ==
  IF Has(blobOf(dataset, sKey), nKey) THEN blobOf(dataset, sKey)[nKey] ELSE EmptyObject

Reply(status, body) == [status |-> status, body |-> body]
Error(message) == [error |-> message]

\* GET /api/lookup/:service/:network
handleLookup(dataset, service, network) ==
  LET sKey == normalizeService(service)
      nKey == normalizeNetwork(network)
  IN  IF ~hasService(dataset, sKey) THEN Reply(404, Error("Unknown service"))
      ELSE IF nKey \notin TELCOS THEN Reply(400, Error("Unknown network"))
      ELSE IF ~Has(blobOf(dataset, sKey), nKey) THEN Reply(404, Error("No entry for network"))
      ELSE LET entry == entryOf(dataset, sKey, nKey)
           IN  Reply(200, [k \in {"code", "explanation"} \cap DOMAIN entry |-> entry[k]])

\* Array.prototype.sort without comparator orders strings by code units;
\* the characters of the display names, in that order
CodeUnits == " '/ABCDEFGHIJKLMNOPQRSTUVWXYZ_abcdefghijklmnopqrstuvwxyz"
codeUnit(c) == CHOOSE i \in 1..Len(CodeUnits) : charAt(CodeUnits, i) = c

RECURSIVE sortsBefore(_, _)
\* a < b as strings
sortsBefore(a, b) ==
  IF Len(b) = 0 THEN FALSE
  ELSE IF Len(a) = 0 THEN TRUE
  ELSE IF charAt(a, 1) # charAt(b, 1) THEN codeUnit(charAt(a, 1)) < codeUnit(charAt(b, 1))
  ELSE sortsBefore(SubSeq(a, 2, Len(a)), SubSeq(b, 2, Len(b)))

RECURSIVE sortedNames(_, _)
\* names.sort() of the service_name of the services `keys`
sortedNames(dataset, keys) ==
  IF keys = {} THEN <<>>
  ELSE LET first == CHOOSE k \in keys :
                      \A j \in keys :
                        ~sortsBefore(dataset[j]["service_name"], dataset[k]["service_name"])
       IN  <<dataset[first]["service_name"]>> \o sortedNames(dataset, keys \ {first})

\* typeof blob.service_name === 'string'
named(dataset) == { k \in DOMAIN dataset : Has(dataset[k], "service_name") }

\* the query string without a network parameter
NoNetwork == ""

\* the services whose names handleListServices pushes
listed(dataset, network) ==
  IF network # NoNetwork
  THEN { k \in named(dataset) : hasMember(dataset[k], normalizeNetwork(network)) }
  ELSE named(dataset)

\* GET /api/services?network=
handleListServices(dataset, network) ==
  Reply(200, sortedNames(dataset, listed(dataset, network)))

\* JSON null
Null == "<null>"

\* blob.x?.code || null
codeOrNull(dataset, sKey, nKey) ==
  LET entry == entryOf(dataset, sKey, nKey)
  IN  IF Has(entry, "code") /\ entry["code"] # "" THEN entry["code"] ELSE Null

\* GET /api/compare/:service
handleCompare(dataset, service) ==
  LET sKey == normalizeService(service)
  IN  IF ~hasService(dataset, sKey) THEN Reply(404, Error("Unknown service"))
      ELSE Reply(200, [nKey \in TELCOS |-> codeOrNull(dataset, sKey, nKey)])

\* a request leaves the browser's state and the dataset alone
Requested(op, args) ==
  /\ last' = [op |-> op, args |-> args, alert |-> NoAlert]
  /\ UNCHANGED <<services, changeRequests, versions, session, now, data, env>>

getLookup(service, network) ==
  /\ Requested("lookup", <<service, network>>)
  /\ response' = handleLookup(data, service, network)

getServices(network) ==
  /\ Requested("services", <<network>>)
  /\ response' = handleListServices(data, network)

getCompare(service) ==
  /\ Requested("compare", <<service>>)
  /\ response' = handleCompare(data, service)

\* The datasets the server is started on: the data file holds any JSON object
\* of services; a service may lack its name or a network's record, and a
\* record may be empty or hold an empty code.
DatasetKeys == {"check_balance", "send_money"}
Absent == "<absent>"
DatasetNames == {Absent, "Check Airtime Balance", "airtime balance"}
DatasetRecords ==
  { [code |-> "*124#", explanation |-> "Checks your balance."],
    [code |-> "", explanation |-> "Not offered."],
    EmptyObject }
\* besides telecel and glo a service holds a record for mtn, or none
DatasetMembers == SUBSET {"mtn"}
DatasetBlobs ==
  { [k \in (IF name = Absent THEN {} ELSE {"service_name"})
         \cup members \cup {"telecel", "glo"} |->
       CASE k = "service_name" -> name
         [] k = "mtn" -> mtn
         [] k = "glo" -> [code |-> "*777#", explanation |-> "On Glo."]
         [] k = "telecel" -> [code |-> "*200#", explanation |-> "On Telecel."]] :
    name \in DatasetNames, members \in DatasetMembers, mtn \in DatasetRecords }
Datasets == UNION { [keys -> DatasetBlobs] : keys \in SUBSET DatasetKeys }

InitApi ==
  /\ services = normalizeImported(sampleData, 0)
  /\ changeRequests = [id \in {} |-> Undefined]
  /\ versions = <<>>
  /\ session = NoSession
  /\ now = 1
  /\ last = [op |-> "init", args |-> <<>>, alert |-> NoAlert]
  /\ data \in Datasets
  /\ response = NoResponse
  /\ env = NoEnv

\* what the clients send: ids as stored, ids to be normalized, ids of nothing
RequestServices == {"check_balance", " Check_Balance ", "no_such_service", "constructor"}
RequestNetworks == {"mtn", " MTN", "glo", "vodafone"}
ListNetworks == {NoNetwork, "mtn", "GLO ", "vodafone", "service_name", "constructor"}

NextApi ==
  \/ \E service \in RequestServices, network \in RequestNetworks : getLookup(service, network)
  \/ \E network \in ListNetworks : getServices(network)
  \/ \E service \in RequestServices : getCompare(service)

SpecApi == InitApi /\ [][NextApi]_vars

\* --------------------------------------------- the full CRUD Express server
\* What express.json() finds in a request: no payload, a JSON object, or a
\* payload that does not parse.
NoBody == [kind |-> "none", value |-> EmptyObject]
Malformed == [kind |-> "malformed", value |-> EmptyObject]
Json(obj) == [kind |-> "json", value |-> obj]

\* what a request leaves behind: the data file and the response
Outcome(dataset, reply) == [data |-> dataset, response |-> reply]

\* app.use(express.json()): a payload that does not parse is answered 400 by
\* the middleware, and no route runs
expressJson(dataset, body, routed) ==
  IF body.kind = "malformed"
  THEN Outcome(dataset, Reply(400, [html |-> "SyntaxError"]))
  ELSE routed

\* { ...a, ...b }
spread(a, b) == [k \in DOMAIN a \cup DOMAIN b |-> IF Has(b, k) THEN b[k] ELSE a[k]]

\* data[sKey] = value, as JSON.stringify(data) then sees it: an own key of the
\* dataset, except "__proto__", which assigns the prototype
assigned(dataset, sKey, value) ==
  IF sKey = "__proto__" THEN dataset
  ELSE [k \in DOMAIN dataset \cup {sKey} |-> IF k = sKey THEN value ELSE dataset[k]]

\* delete data[sKey]
deleted(dataset, sKey) == [k \in DOMAIN dataset \ {sKey} |-> dataset[k]]

\* if (writeData(data)) 200 else 500: the file holds `next` only if the write
\* succeeded
writeData(dataset, next, saved, message) ==
  IF saved
  THEN Outcome(next, Reply(200, [success |-> TRUE, message |-> message]))
  ELSE Outcome(dataset, Reply(500, Error("Failed to save data")))

\* GET /api/data
getAllData(dataset) == Outcome(dataset, Reply(200, dataset))

\* PUT /api/data/:service
putService(dataset, service, updates, saved) ==
  LET sKey == normalizeService(service)
  IN  IF ~hasService(dataset, sKey)
      THEN Outcome(dataset, Reply(404, Error("Service not found")))
      ELSE writeData(dataset,
                     assigned(dataset, sKey, spread(blobOf(dataset, sKey), updates)),
                     saved, "updated")

\* POST /api/data
postService(dataset, body, saved) ==
  IF ~Has(body, "service_id") \/ body["service_id"] = ""
  THEN Outcome(dataset, Reply(400, Error("service_id is required")))
  ELSE LET sKey == normalizeService(body["service_id"])
           serviceData == [k \in DOMAIN body \ {"service_id"} |-> body[k]]
       IN  IF hasService(dataset, sKey)
           THEN Outcome(dataset, Reply(409, Error("Service already exists")))
           ELSE writeData(dataset, assigned(dataset, sKey, serviceData), saved, "created")

\* DELETE /api/data/:service
deleteService(dataset, service, saved) ==
  LET sKey == normalizeService(service)
  IN  IF ~hasService(dataset, sKey)
      THEN Outcome(dataset, Reply(404, Error("Service not found")))
      ELSE writeData(dataset, deleted(dataset, sKey), saved, "deleted")

\* one request to a server: the browser's state and the environment stay
Handled(op, args, outcome) ==
  /\ last' = [op |-> op, args |-> args, alert |-> NoAlert]
  /\ data' = outcome.data
  /\ response' = outcome.response
  /\ UNCHANGED <<services, changeRequests, versions, session, now, env>>

getData == Handled("getData", <<>>, getAllData(data))

putData(service, body, saved) ==
  Handled("putData", <<service, body, saved>>,
          expressJson(data, body, putService(data, service, body.value, saved)))

postData(body, saved) ==
  Handled("postData", <<body, saved>>,
          expressJson(data, body, postService(data, body.value, saved)))

deleteData(service, saved) ==
  Handled("deleteData", <<service, saved>>, deleteService(data, service, saved))

\* USSDApiClient.convertAppToApiFormat
convertAppToApiFormat(map) ==
  [serviceId \in DOMAIN map |->
     [service_name |-> map[serviceId].service_name,
      mtn          |-> map[serviceId].telcos.mtn,
      telecel      |-> map[serviceId].telcos.telecel,
      airteltigo   |-> map[serviceId].telcos.airteltigo,
      glo          |-> map[serviceId].telcos.glo]]

RECURSIVE deleteEach(_, _, _)
\* for (const serviceId of Object.keys(existingServices)) deleteService(serviceId),
\* a failed request being logged and skipped
deleteEach(dataset, serviceIds, saved) ==
  IF serviceIds = {} THEN dataset
  ELSE LET serviceId == CHOOSE k \in serviceIds : TRUE
       IN  deleteEach(deleteService(dataset, serviceId, saved).data,
                      serviceIds \ {serviceId}, saved)

RECURSIVE createEach(_, _, _, _)
\* for (const [serviceId, serviceData] of Object.entries(apiData))
\* createService(serviceId, serviceData), a failed request being logged and skipped
createEach(dataset, apiData, serviceIds, saved) ==
  IF serviceIds = {} THEN dataset
  ELSE LET serviceId == CHOOSE k \in serviceIds : TRUE
           body == spread([service_id |-> serviceId], apiData[serviceId])
       IN  createEach(postService(dataset, body, saved).data,
                      apiData, serviceIds \ {serviceId}, saved)

\* USSDApiClient.replaceAllData(services, onlyActive) against the full server,
\* no other client writing meanwhile: the data file it leaves
replaced(dataset, map, onlyActive, saved) ==
  LET servicesToSync ==
        IF onlyActive THEN [k \in { j \in DOMAIN map : map[j].active } |-> map[k]] ELSE map
      existingServices == getAllData(dataset).response.body
      apiData == convertAppToApiFormat(servicesToSync)
  IN  createEach(deleteEach(dataset, DOMAIN existingServices, saved),
                 apiData, DOMAIN apiData, saved)

\* ApiPanel's handleReplaceSync: replaceAllData resolves whatever the requests
\* answered
replaceAllData(onlyActive, saved) ==
  Handled("replaceAllData", <<onlyActive, saved>>,
          Outcome(replaced(data, services, onlyActive, saved), response))

\* the catalogs the panel is opened on: the sample, the sample with a service
\* switched off, and an imported catalog whose id has capitals
SyncCatalogs ==
  LET sample == normalizeImported(sampleData, 0)
  IN  { sample,
        [sample EXCEPT !["borrow_credit"].active = FALSE],
        normalizeImported([k \in {"Check_Balance"} |-> sampleData["check_balance"]], 0) }

\* the requests of the admin clients: ids as stored, ids to be normalized,
\* ids of nothing, partial updates, new services with and without an id
CrudServices == {"check_balance", " Send_Money ", "constructor"}
CrudUpdates ==
  { [service_name |-> "Airtime Balance"],
    [mtn |-> [code |-> "*555#", explanation |-> "New."]] }
CrudCreates ==
  { [service_name |-> "Send Money"],
    [service_id |-> "", service_name |-> "Send Money"],
    [service_id |-> "send_money", service_name |-> "Send Money"],
    [service_id |-> " Check_Balance ", service_name |-> "Balance"] }
PutBodies == {Malformed} \cup { Json(updates) : updates \in CrudUpdates }
PostBodies == {Malformed} \cup { Json(body) : body \in CrudCreates }

\* the data file the server is started on: the deployed dataset, or part of it
CrudDatasets == { [k \in keys |-> USSD_DATA[k]] : keys \in SUBSET {"check_balance"} }

InitCrud ==
  /\ services = normalizeImported(sampleData, 0)
  /\ changeRequests = [id \in {} |-> Undefined]
  /\ versions = <<>>
  /\ session = NoSession
  /\ now = 1
  /\ last = [op |-> "init", args |-> <<>>, alert |-> NoAlert]
  /\ data \in CrudDatasets
  /\ response = NoResponse
  /\ env = NoEnv

NextCrud ==
  \/ getData
  \/ \E service \in CrudServices, body \in PutBodies, saved \in BOOLEAN :
       putData(service, body, saved)
  \/ \E body \in PostBodies, saved \in BOOLEAN : postData(body, saved)
  \/ \E service \in CrudServices, saved \in BOOLEAN : deleteData(service, saved)

SpecCrud == InitCrud /\ [][NextCrud]_vars

\* the API panel at work: the catalog of the browser is synced to a server
\* that other admin clients create services on and delete services from
InitSync ==
  /\ services \in SyncCatalogs
  /\ changeRequests = [id \in {} |-> Undefined]
  /\ versions = <<>>
  /\ session = NoSession
  /\ now = 1
  /\ last = [op |-> "init", args |-> <<>>, alert |-> NoAlert]
  /\ data \in CrudDatasets
  /\ response = NoResponse
  /\ env = NoEnv

NextSync ==
  \/ \E onlyActive \in BOOLEAN, saved \in BOOLEAN : replaceAllData(onlyActive, saved)
  \/ getData
  \/ \E body \in PostBodies : postData(body, TRUE)
  \/ \E service \in CrudServices : deleteData(service, TRUE)

SpecSync == InitSync /\ [][NextSync]_vars

\* ------------------------------- the read-only servers: Vercel, Netlify, Express
\* A request: its method, the segments of its path below /api, the network
\* parameter of its query string, and its payload.
Request(method, path, network, body) ==
  [method |-> method, path |-> path, network |-> network, body |-> body]

WriteMethods == {"POST", "PUT", "DELETE", "PATCH"}

\* api/index.js: export default function handler(req, res)
handler(dataset, req) ==
  LET path == req.path
  IN  IF req.method = "OPTIONS" THEN Reply(200, EmptyObject)
      ELSE IF req.method # "GET" THEN Reply(405, Error("Only GET requests allowed"))
      ELSE IF Len(path) = 0 \/ path[1] = "health" THEN Reply(200, [status |-> "ok"])
      ELSE IF path[1] = "lookup" /\ Len(path) = 3
           THEN handleLookup(dataset, path[2], path[3])
      ELSE IF path[1] = "services" THEN handleListServices(dataset, req.network)
      ELSE IF path[1] = "compare" /\ Len(path) = 2 THEN handleCompare(dataset, path[2])
      ELSE Reply(404, Error("Endpoint not found"))

\* netlify/functions/api.js: handleLookup, handleListServices, handleCompare
netlifyLookup(dataset, service, network) ==
  LET sKey == normalizeService(service)
      nKey == normalizeNetwork(network)
  IN  IF ~hasService(dataset, sKey) THEN Reply(404, Error("Unknown service"))
      ELSE IF nKey \notin {"mtn", "telecel", "airteltigo", "glo"}
           THEN Reply(400, Error("Unknown network"))
      ELSE IF ~Has(blobOf(dataset, sKey), nKey) THEN Reply(404, Error("No entry for network"))
      ELSE LET entry == entryOf(dataset, sKey, nKey)
           IN  Reply(200, [k \in {"code", "explanation"} \cap DOMAIN entry |-> entry[k]])

netlifyListServicesUnfiltered(dataset, network) ==
  Reply(200, sortedNames(dataset, named(dataset)))

netlifyListServices(dataset, network) ==
  IF network # NoNetwork
  THEN Reply(200, sortedNames(dataset,
         { k \in DOMAIN dataset :
             /\ hasMember(dataset[k], normalizeNetwork(network))
             /\ Has(dataset[k], "service_name") }))
  ELSE Reply(200, sortedNames(dataset,
         { k \in DOMAIN dataset : Has(dataset[k], "service_name") }))

netlifyCompare(dataset, service) ==
  LET sKey == normalizeService(service)
  IN  IF ~hasService(dataset, sKey) THEN Reply(404, Error("Unknown service"))
      ELSE Reply(200, [mtn        |-> codeOrNull(dataset, sKey, "mtn"),
                       telecel    |-> codeOrNull(dataset, sKey, "telecel"),
                       airteltigo |-> codeOrNull(dataset, sKey, "airteltigo"),
                       glo        |-> codeOrNull(dataset, sKey, "glo")])

\* netlify/functions/api.js: export const handler
netlifyHandler(dataset, req) ==
  LET pathParts == req.path
  IN  IF req.method = "OPTIONS" THEN Reply(200, EmptyObject)
      ELSE IF Len(pathParts) = 0 \/ pathParts[1] = "health" THEN Reply(200, [status |-> "ok"])
      ELSE IF req.method # "GET" THEN Reply(405, Error("Only GET requests allowed"))
      ELSE IF pathParts[1] = "lookup" /\ Len(pathParts) = 3
           THEN netlifyLookup(dataset, pathParts[2], pathParts[3])
      ELSE IF pathParts[1] = "services" THEN netlifyListServices(dataset, req.network)
      ELSE IF pathParts[1] = "compare" /\ Len(pathParts) = 2
           THEN netlifyCompare(dataset, pathParts[2])
      ELSE Reply(404, Error("Endpoint not found"))

\* server_readonly.js: the three read endpoints
readonlyLookup(dataset, service, network) ==
  LET sKey == normalizeService(service)
      nKey == normalizeNetwork(network)
  IN  IF ~hasService(dataset, sKey) THEN Reply(404, Error("Unknown service"))
      ELSE IF nKey \notin {"mtn", "telecel", "airteltigo", "glo"}
           THEN Reply(400, Error("Unknown network"))
      ELSE IF ~Has(blobOf(dataset, sKey), nKey) THEN Reply(404, Error("No entry for network"))
      ELSE LET entry == entryOf(dataset, sKey, nKey)
           IN  Reply(200, [k \in {"code", "explanation"} \cap DOMAIN entry |-> entry[k]])

readonlyServices(dataset, network) ==
  IF network # NoNetwork
  THEN Reply(200, sortedNames(dataset,
         { k \in { j \in DOMAIN dataset : hasMember(dataset[j], normalizeNetwork(network)) } :
             Has(dataset[k], "service_name") }))
  ELSE Reply(200, sortedNames(dataset,
         { k \in DOMAIN dataset : Has(dataset[k], "service_name") }))

readonlyCompare(dataset, service) ==
  LET sKey == normalizeService(service)
  IN  IF ~hasService(dataset, sKey) THEN Reply(404, Error("Unknown service"))
      ELSE Reply(200, [mtn        |-> codeOrNull(dataset, sKey, "mtn"),
                       telecel    |-> codeOrNull(dataset, sKey, "telecel"),
                       airteltigo |-> codeOrNull(dataset, sKey, "airteltigo"),
                       glo        |-> codeOrNull(dataset, sKey, "glo")])

\* server_readonly.js: app.post('*', rejectWrite) and its three siblings
rejectWriteUnrouted == Reply(404, [html |-> "Cannot POST"])

rejectWrite ==
  Reply(405, Error("Write operations not allowed. This is a read-only API for MCP server access."))

\* server_readonly.js: cors(), express.json(), then the routes in their order
readonlyApp(dataset, req) ==
  LET path == req.path
      routed ==
        IF req.method = "GET" /\ Len(path) = 3 /\ path[1] = "lookup"
        THEN readonlyLookup(dataset, path[2], path[3])
        ELSE IF req.method = "GET" /\ path = <<"services">>
        THEN readonlyServices(dataset, req.network)
        ELSE IF req.method = "GET" /\ Len(path) = 2 /\ path[1] = "compare"
        THEN readonlyCompare(dataset, path[2])
        ELSE IF req.method = "GET" /\ path = <<"health">> THEN Reply(200, [status |-> "ok"])
        ELSE IF req.method \in WriteMethods THEN rejectWrite
        ELSE Reply(404, [html |-> "Cannot GET"])
  IN  IF req.method = "OPTIONS" THEN Reply(204, EmptyObject)
      ELSE expressJson(dataset, req.body, Outcome(dataset, routed)).response

\* one request to one of the three deployments; none of them writes the dataset
vercelRequest(req) == Handled("vercel", <<req>>, Outcome(data, handler(data, req)))
netlifyRequest(req) == Handled("netlify", <<req>>, Outcome(data, netlifyHandler(data, req)))
readonlyRequest(req) == Handled("readonly", <<req>>, Outcome(data, readonlyApp(data, req)))

\* what the clients send: the three read endpoints, the health check, the
\* admin routes of the full server; every method; payloads that parse or not
ReadServices == {"check_balance", " Check_Balance ", "send_money"}
ReadNetworks == {"mtn", " MTN", "vodafone"}
ReadPaths ==
  { <<"lookup", service, network>> : service \in ReadServices, network \in ReadNetworks }
    \cup { <<"compare", service>> : service \in ReadServices }
    \cup { <<"services">>, <<"health">> }
WritePaths == { <<"data", "check_balance">>, <<"services">>, <<"health">> }
ReadRequests ==
  { Request("GET", path, NoNetwork, NoBody) : path \in ReadPaths \cup {<<"data">>} }
    \cup { Request("GET", <<"services">>, network, NoBody) : network \in {"mtn", "GLO "} }
WriteRequests ==
  { Request(method, path, NoNetwork, body) :
      method \in WriteMethods \cup {"OPTIONS"}, path \in WritePaths,
      body \in {NoBody, Malformed, Json([service_id |-> "send_money"])} }
Requests == ReadRequests \cup WriteRequests

\* the dataset the deployments serve
ReadDatasets ==
  { dataset \in Datasets :
      /\ DOMAIN dataset \subseteq {"check_balance"}
      /\ \A k \in DOMAIN dataset :
           Has(dataset[k], "service_name") => dataset[k]["service_name"] = "Check Airtime Balance" }

InitReadonly ==
  /\ services = normalizeImported(sampleData, 0)
  /\ changeRequests = [id \in {} |-> Undefined]
  /\ versions = <<>>
  /\ session = NoSession
  /\ now = 1
  /\ last = [op |-> "init", args |-> <<>>, alert |-> NoAlert]
  /\ data \in ReadDatasets
  /\ response = NoResponse
  /\ env = NoEnv

NextReadonly ==
  \/ \E req \in Requests : vercelRequest(req)
  \/ \E req \in Requests : netlifyRequest(req)
  \/ \E req \in Requests : readonlyRequest(req)

SpecReadonly == InitReadonly /\ [][NextReadonly]_vars

\* ------------------------------------------------------ the secure server
\* const ENABLE_WRITE_OPERATIONS = process.env.ENABLE_WRITE_OPERATIONS === 'true'
ENABLE_WRITE_OPERATIONS(environment) == environment.ENABLE_WRITE_OPERATIONS = "true"
\* API_KEY is truthy: defined and not the empty string
API_KEY(environment) == environment.API_KEY \notin {Undefined, ""}

\* requireWriteAccess(req, res, next), with key the request's x-api-key header
requireWriteAccess(environment, dataset, key, next) ==
  IF ~ENABLE_WRITE_OPERATIONS(environment)
  THEN Outcome(dataset, Reply(403, Error("Write operations are disabled.")))
  ELSE IF API_KEY(environment) /\ key # environment.API_KEY
  THEN Outcome(dataset, Reply(401, Error("Unauthorized. Valid API key required.")))
  ELSE next

\* the four protected routes: express.json(), the gate, then the handler of
\* the full server
secureGetData(key) ==
  Handled("secureGetData", <<key>>,
          requireWriteAccess(env, data, key, getAllData(data)))

securePutData(key, service, body, saved) ==
  Handled("securePutData", <<key, service, body, saved>>,
          expressJson(data, body,
            requireWriteAccess(env, data, key,
              putService(data, service, body.value, saved))))

securePostData(key, body, saved) ==
  Handled("securePostData", <<key, body, saved>>,
          expressJson(data, body,
            requireWriteAccess(env, data, key, postService(data, body.value, saved))))

secureDeleteData(key, service, saved) ==
  Handled("secureDeleteData", <<key, service, saved>>,
          requireWriteAccess(env, data, key, deleteService(data, service, saved)))

\* how the server is started, and the keys the clients present
SecureEnvs ==
  [ENABLE_WRITE_OPERATIONS : {Undefined, "true", "false"},
   API_KEY : {Undefined, "", "your-secret-key"}]
ApiKeys == {Undefined, "your-secret-key", "guess"}
SecureServices == {"check_balance", " Send_Money "}
SecurePutBodies == {Malformed, Json([service_name |-> "Airtime Balance"])}
SecurePostBodies ==
  {Malformed, Json([service_name |-> "Send Money"]),
   Json([service_id |-> "send_money", service_name |-> "Send Money"])}

InitSecure ==
  /\ services = normalizeImported(sampleData, 0)
  /\ changeRequests = [id \in {} |-> Undefined]
  /\ versions = <<>>
  /\ session = NoSession
  /\ now = 1
  /\ last = [op |-> "init", args |-> <<>>, alert |-> NoAlert]
  /\ data \in CrudDatasets
  /\ response = NoResponse
  /\ env \in SecureEnvs

NextSecure ==
  \/ \E key \in ApiKeys : secureGetData(key)
  \/ \E key \in ApiKeys, service \in SecureServices, body \in SecurePutBodies, saved \in BOOLEAN :
       securePutData(key, service, body, saved)
  \/ \E key \in ApiKeys, body \in SecurePostBodies, saved \in BOOLEAN :
       securePostData(key, body, saved)
  \/ \E key \in ApiKeys, service \in SecureServices, saved \in BOOLEAN :
       secureDeleteData(key, service, saved)

SpecSecure == InitSecure /\ [][NextSecure]_vars

\* ------------------------------------------- the bulk draft buttons of a card
\* getDraftChanges(): the drafts of the card's service, in the order of
\* Object.values(changeRequests), which is the order the requests were filed in
getDraftChanges(id) ==
  { r \in DOMAIN changeRequests :
      changeRequests[r].serviceId = id /\ changeRequests[r].status = "draft" }
lastOf(requestIds) == CHOOSE r \in requestIds : \A q \in requestIds : q <= r

\* 'Submit for Approval': draftChanges.forEach(draft => onSubmitDraft(draft.id)).
\* Every call runs submitDraftChange of the same render, so each builds
\* nextRequests from the ledger of that render, sets it and saves it; the
\* ledger in memory and in localStorage is the one the last call built.  Each
\* call reads the clock after the alert of the call before it was dismissed.
submitForApproval(id) ==
  LET draftChanges == getDraftChanges(id)
      requestId == lastOf(draftChanges)
      calls == Cardinality(draftChanges)
  IN  /\ role \in TELCOS
      /\ draftChanges # {}
      /\ Alerted("submitForApproval", <<id>>, "Change request submitted for admin review!")
      /\ changeRequests' =
           [changeRequests EXCEPT ![requestId] =
              [submitted(@) EXCEPT !.requestedAt = now + calls - 1]]
      /\ now' = now + calls
      /\ UNCHANGED <<services, versions, session>>

\* 'Cancel Changes': if (confirm(...)) draftChanges.forEach(draft =>
\* onCancelDraft(draft.id)), every call deleting its draft from a copy of the
\* ledger of the same render
cancelChanges(id, confirmed) ==
  LET draftChanges == getDraftChanges(id)
      requestId == lastOf(draftChanges)
  IN  /\ role \in TELCOS
      /\ draftChanges # {}
      /\ Called("cancelChanges", <<id, confirmed>>)
      /\ changeRequests' =
           IF confirmed
           THEN [r \in DOMAIN changeRequests \ {requestId} |-> changeRequests[r]]
           ELSE changeRequests
      /\ UNCHANGED <<services, versions, session, now>>

\* a representative at one card: both leaves of the network edited, the drafts
\* submitted or cancelled together or one by one
MaxBulkTime == 3      \* clock readings of the session (SpecBulk)
BulkFields == { <<"mtn", "code">>, <<"mtn", "explanation">> }
BulkClockLeft == LoggedIn /\ now <= MaxBulkTime

NextBulk ==
  \/ \E sess \in RepLogins : onLogin(sess)
  \/ onLogout
  \/ BulkClockLeft /\ \E id \in EditIds, f \in BulkFields, value \in RepValues :
       setTelcoField(id, f[1], f[2], value)
  \/ BulkClockLeft /\ \E id \in EditIds : submitForApproval(id)
  \/ LoggedIn /\ \E id \in EditIds, confirmed \in BOOLEAN : cancelChanges(id, confirmed)
  \/ BulkClockLeft /\ \E requestId \in LedgerIds : submitDraftChange(requestId)

SpecBulk == Init /\ [][NextBulk]_vars

\* ================================================================ claims
LastWas(op) == last.op = op
NextIs(op) == last'.op = op
Live == {"draft", "pending"}
Terminal == {"approved", "rejected"}
RequestsFor(id, field, status) ==
  { r \in DOMAIN changeRequests :
      /\ changeRequests[r].serviceId = id
      /\ changeRequests[r].field = field
      /\ changeRequests[r].status = status }

\* C1: for every service S and field F the ledger holds at most one draft and
\* at most one pending request for (S, F).
C1_OneDraftOnePendingPerField ==
  \A a, b \in DOMAIN changeRequests :
    ( /\ changeRequests[a].serviceId = changeRequests[b].serviceId
      /\ changeRequests[a].field = changeRequests[b].field
      /\ changeRequests[a].status = changeRequests[b].status
      /\ changeRequests[a].status \in Live ) => a = b

\* C2: approve by admin of a pending request whose service exists writes
\* newValue into the addressed leaf, stamps a strictly newer lastUpdated, and
\* leaves the request approved with reviewedBy and reviewedAt set.
C2_ApproveAppliesValue ==
  [][ \A r \in DOMAIN changeRequests :
        ( /\ NextIs("approveChangeRequest") /\ last'.args = <<r>>
          /\ role = "admin"
          /\ changeRequests[r].status = "pending"
          /\ changeRequests[r].serviceId \in DOMAIN services )
        => LET req == changeRequests[r]
               sid == req.serviceId
           IN  /\ sid \in DOMAIN services'
               /\ services'[sid].telcos[req.field[2]][req.field[3]] = req.newValue
               /\ services'[sid].lastUpdated > services[sid].lastUpdated
               /\ r \in DOMAIN changeRequests'
               /\ changeRequests'[r].status = "approved"
               /\ changeRequests'[r].reviewedBy = session.displayName
               /\ changeRequests'[r].reviewedBy # Undefined
               /\ changeRequests'[r].reviewedAt # NoTime ]_vars

\* an approval that changed the catalog leaf has just run
C2_Witness ==
  /\ LastWas("approveChangeRequest")
  /\ \E r \in DOMAIN changeRequests :
       /\ last.args = <<r>>
       /\ changeRequests[r].status = "approved"
       /\ changeRequests[r].oldValue # changeRequests[r].newValue
       /\ changeRequests[r].serviceId \in DOMAIN services
       /\ services[changeRequests[r].serviceId]
            .telcos[changeRequests[r].field[2]][changeRequests[r].field[3]]
            = changeRequests[r].newValue

\* approve is called by admin on a pending request whose service is gone
ApproveOfOrphan(r) ==
  /\ NextIs("approveChangeRequest") /\ last'.args = <<r>>
  /\ role = "admin"
  /\ changeRequests[r].status = "pending"
  /\ changeRequests[r].serviceId \notin DOMAIN services

\* C3 as claimed: approving a pending request whose service is no longer in
\* the catalog marks the request approved and leaves the catalog unchanged.
C3_OrphanMarkedApproved ==
  [][ \A r \in DOMAIN changeRequests :
        ApproveOfOrphan(r) =>
          /\ r \in DOMAIN changeRequests'
          /\ changeRequests'[r].status = "approved"
          /\ services' = services ]_vars

\* C3 amended: approving a pending request whose service is no longer in the
\* catalog changes nothing: the request stays pending, and ledger and catalog
\* are left as they were.
C3_OrphanStaysPending ==
  [][ \A r \in DOMAIN changeRequests :
        ApproveOfOrphan(r) =>
          /\ changeRequests' = changeRequests
          /\ changeRequests'[r].status = "pending"
          /\ services' = services ]_vars

C3_Witness ==
  /\ LastWas("approveChangeRequest")
  /\ role = "admin"
  /\ \E r \in DOMAIN changeRequests :
       /\ last.args = <<r>>
       /\ changeRequests[r].status = "pending"
       /\ changeRequests[r].serviceId \notin DOMAIN services

\* C4: once a request is approved or rejected, no later edit, submit, recall,
\* approve or reject changes its status, newValue, oldValue or review stamps,
\* and none of them removes it.
C4_TerminalIsFinal ==
  [][ \A r \in DOMAIN changeRequests :
        ( /\ changeRequests[r].status \in Terminal
          /\ last'.op \in {"setTelcoField", "submitDraftChange", "recallPendingChange",
                           "approveChangeRequest", "rejectChangeRequest"} )
        => /\ r \in DOMAIN changeRequests'
           /\ changeRequests'[r].status = changeRequests[r].status
           /\ changeRequests'[r].newValue = changeRequests[r].newValue
           /\ changeRequests'[r].oldValue = changeRequests[r].oldValue
           /\ changeRequests'[r].reviewedBy = changeRequests[r].reviewedBy
           /\ changeRequests'[r].reviewedAt = changeRequests[r].reviewedAt
           /\ changeRequests'[r].comments = changeRequests[r].comments ]_vars

\* a reviewed request has just been handed to recall, submit, approve or
\* reject, or its field has just been edited again by its network's role
C4_Witness ==
  \E r \in DOMAIN changeRequests :
    /\ changeRequests[r].status \in Terminal
    /\ changeRequests[r].reviewedAt < now - 1
    /\ \/ /\ last.op \in {"submitDraftChange", "recallPendingChange",
                          "approveChangeRequest", "rejectChangeRequest"}
          /\ last.args[1] = r
       \/ /\ LastWas("setTelcoField")
          /\ last.args[1] = changeRequests[r].serviceId
          /\ FieldPath(last.args[2], last.args[3]) = changeRequests[r].field
          /\ role = last.args[2]

\* C5: cancelDraftChange with the id of a pending, approved or rejected
\* request leaves the ledger unchanged, so a reviewed request is never removed.
C5_OnlyDraftsRemoved ==
  [][ /\ ( /\ NextIs("cancelDraftChange")
           /\ last'.args[1] \in DOMAIN changeRequests
           /\ changeRequests[last'.args[1]].status # "draft" )
         => changeRequests' = changeRequests
      /\ \A r \in DOMAIN changeRequests :
           changeRequests[r].status \in Terminal => r \in DOMAIN changeRequests' ]_vars

\* C6: approve and reject under a session whose role is not admin leave the
\* ledger and the catalog unchanged.
C6_ReviewNeedsAdmin ==
  [][ ( /\ last'.op \in {"approveChangeRequest", "rejectChangeRequest"}
        /\ role # "admin" )
      => /\ changeRequests' = changeRequests
         /\ services' = services ]_vars

\* a network role has just called approve or reject on a pending request
C6_Witness ==
  /\ last.op \in {"approveChangeRequest", "rejectChangeRequest"}
  /\ role \in TELCOS
  /\ last.args[1] \in DOMAIN changeRequests
  /\ changeRequests[last.args[1]].status = "pending"
  /\ changeRequests[last.args[1]].serviceId \in DOMAIN services

\* C7: setTelcoField by network role N on a field of another network M is
\* rejected: no draft is created or updated and the catalog is unchanged.
C7_OtherNetworkRejected ==
  [][ ( /\ NextIs("setTelcoField")
        /\ role \in TELCOS
        /\ last'.args[2] # role )
      => /\ changeRequests' = changeRequests
         /\ services' = services ]_vars

\* a network role has just typed into another network's field of a service
\* that exists
C7_Witness ==
  /\ LastWas("setTelcoField")
  /\ role \in TELCOS
  /\ last.args[2] \in TELCOS \ {role}
  /\ last.args[1] \in DOMAIN services

\* C8: under a session bound to a network role N no operation changes any
\* service's identifier, display name or active flag, nor any code or
\* explanation of a network other than N, in the catalog.
C8_NetworkRoleConfined ==
  [][ (role \in TELCOS) =>
        /\ DOMAIN services' = DOMAIN services
        /\ \A sid \in DOMAIN services :
             /\ services'[sid].service_id = services[sid].service_id
             /\ services'[sid].service_name = services[sid].service_name
             /\ services'[sid].active = services[sid].active
             /\ \A t \in TELCOS \ {role} :
                  services'[sid].telcos[t] = services[sid].telcos[t] ]_vars

\* C9: cancelDraftChange under a session whose displayName differs from the
\* draft's requestedBy leaves the ledger unchanged.
C9_CancelByRequesterOnly ==
  [][ ( /\ NextIs("cancelDraftChange")
        /\ last'.args[1] \in DOMAIN changeRequests
        /\ changeRequests[last'.args[1]].status = "draft"
        /\ changeRequests[last'.args[1]].requestedBy # session.displayName )
      => changeRequests' = changeRequests ]_vars

\* C10: setTelcoField by a network role on its own field of an existing
\* service overwrites the newValue of the existing draft for that field in
\* place (same ids, same id, same oldValue), or else adds exactly one draft
\* with newValue the typed value and oldValue the catalog's current value;
\* the catalog is unchanged either way.
C10_DraftCreateOrUpdate ==
  [][ \A id \in DOMAIN services, telco \in TELCOS, key \in {"code", "explanation"} :
        ( /\ NextIs("setTelcoField")
          /\ last'.args[1] = id /\ last'.args[2] = telco /\ last'.args[3] = key
          /\ role = telco )
        => LET value == last'.args[4]
               drafts == RequestsFor(id, FieldPath(telco, key), "draft")
               added == DOMAIN changeRequests' \ DOMAIN changeRequests
           IN  /\ services' = services
               /\ DOMAIN changeRequests \subseteq DOMAIN changeRequests'
               /\ IF drafts # {}
                  THEN /\ added = {}
                       /\ \E d \in drafts :
                            /\ changeRequests'[d].newValue = value
                            /\ changeRequests'[d].id = changeRequests[d].id
                            /\ changeRequests'[d].oldValue = changeRequests[d].oldValue
                            /\ changeRequests'[d].status = "draft"
                            /\ \A r \in DOMAIN changeRequests \ {d} :
                                 changeRequests'[r] = changeRequests[r]
                  ELSE /\ Cardinality(added) = 1
                       /\ \A n \in added :
                            /\ changeRequests'[n].id = n
                            /\ changeRequests'[n].status = "draft"
                            /\ changeRequests'[n].serviceId = id
                            /\ changeRequests'[n].field = FieldPath(telco, key)
                            /\ changeRequests'[n].newValue = value
                            /\ changeRequests'[n].oldValue = services[id].telcos[telco][key]
                       /\ \A r \in DOMAIN changeRequests :
                            changeRequests'[r] = changeRequests[r] ]_vars

\* a network role has just retyped a field it already had a draft for: the
\* draft is older than its last edit and carries the new value
C10_Witness ==
  /\ LastWas("setTelcoField")
  /\ role = last.args[2]
  /\ \E d \in RequestsFor(last.args[1], FieldPath(last.args[2], last.args[3]), "draft") :
       /\ changeRequests[d].id < changeRequests[d].requestedAt
       /\ changeRequests[d].requestedAt = now - 1
       /\ changeRequests[d].newValue = last.args[4]
       /\ changeRequests[d].newValue # changeRequests[d].oldValue

\* the ledger differs from the one before in request r alone, and there only
\* in status, now `to`, and in requestedAt
OnlyStatusMoved(r, to) ==
  /\ DOMAIN changeRequests' = DOMAIN changeRequests
  /\ \A o \in DOMAIN changeRequests \ {r} : changeRequests'[o] = changeRequests[o]
  /\ changeRequests'[r] =
       [changeRequests[r] EXCEPT !.status = to,
                                 !.requestedAt = changeRequests'[r].requestedAt]

\* C11: submitDraftChange moves a request only from draft to pending and
\* recallPendingChange only from pending to draft; with an unknown id or a
\* request in any other status each leaves the whole ledger unchanged, and
\* neither ever changes the catalog.
C11_SubmitRecallTransitions ==
  [][ /\ NextIs("submitDraftChange") =>
           /\ services' = services
           /\ IF statusOf(last'.args[1]) = "draft"
              THEN OnlyStatusMoved(last'.args[1], "pending")
              ELSE changeRequests' = changeRequests
      /\ NextIs("recallPendingChange") =>
           /\ services' = services
           /\ IF statusOf(last'.args[1]) = "pending"
              THEN OnlyStatusMoved(last'.args[1], "draft")
              ELSE changeRequests' = changeRequests ]_vars

\* a pending request has just been recalled to draft: the recall raised its
\* alert and refreshed requestedAt of a request created two readings earlier
C11_Witness ==
  /\ LastWas("recallPendingChange")
  /\ last.alert # NoAlert
  /\ last.args[1] \in DOMAIN changeRequests
  /\ changeRequests[last.args[1]].status = "draft"
  /\ changeRequests[last.args[1]].requestedAt = now - 1
  /\ changeRequests[last.args[1]].id < now - 2

\* the status a ledger transition requires of the request it is handed
RequiredStatus(op) ==
  CASE op = "submitDraftChange" -> "draft"
    [] op = "recallPendingChange" -> "pending"
    [] op = "approveChangeRequest" -> "pending"
    [] op = "rejectChangeRequest" -> "pending"

\* the messages the four transitions raise when they succeed
SuccessAlerts ==
  {"Change request submitted for admin review!",
   "Change recalled! You can now edit and resubmit.",
   "Change approved", "Change rejected"}

\* C12: a ledger transition whose precondition fails (submit on a request
\* that is not a draft, recall, approve or reject on one that is not pending
\* or is unknown) is reported to the caller: it raises a message, and one
\* that differs from those of a successful transition.
C12_ViolationReported ==
  [][ ( /\ last'.op \in {"submitDraftChange", "recallPendingChange",
                         "approveChangeRequest", "rejectChangeRequest"}
        /\ statusOf(last'.args[1]) # RequiredStatus(last'.op) )
      => /\ last'.alert # NoAlert
         /\ last'.alert \notin SuccessAlerts ]_vars

\* C13: for a pending request r, recallPendingChange(r) followed at once by
\* submitDraftChange(r) returns r to pending with the same id, serviceId,
\* field, oldValue and newValue; each of the two transitions sets requestedAt
\* to the time it runs at, later than the one it replaces.
C13_RecallThenSubmit ==
  [][ \A r \in DOMAIN changeRequests :
        /\ ( /\ NextIs("recallPendingChange") /\ last'.args = <<r>>
             /\ changeRequests[r].status = "pending" )
           => /\ changeRequests'[r] =
                   [changeRequests[r] EXCEPT !.status = "draft", !.requestedAt = now]
              /\ changeRequests'[r].requestedAt > changeRequests[r].requestedAt
        /\ ( /\ LastWas("recallPendingChange") /\ last.args = <<r>>
             /\ last.alert # NoAlert
             /\ NextIs("submitDraftChange") /\ last'.args = <<r>> )
           => /\ changeRequests'[r] =
                   [changeRequests[r] EXCEPT !.status = "pending", !.requestedAt = now]
              /\ changeRequests'[r].requestedAt > changeRequests[r].requestedAt
              /\ changeRequests[r].requestedAt = now - 1 ]_vars

\* a request r has just been resubmitted right after its recall: r, created
\* five clock readings ago, is pending and stamped by this submit, and the
\* ledger holds a draft d for the same field, never edited, created three
\* readings ago.  d was created because r was pending then (a draft would have
\* been updated in place), so r was submitted at the one reading between the
\* two creations and recalled at the one reading between d's creation and
\* this submit.
C13_Witness ==
  /\ LastWas("submitDraftChange")
  /\ last.alert # NoAlert
  /\ last.args[1] \in DOMAIN changeRequests
  /\ LET r == changeRequests[last.args[1]]
     IN  /\ r.status = "pending"
         /\ r.requestedAt = now - 1
         /\ r.id = now - 5
         /\ \E d \in RequestsFor(r.serviceId, r.field, "draft") :
              /\ changeRequests[d].id = now - 3
              /\ changeRequests[d].requestedAt = now - 3

\* C14: rejectChangeRequest never changes the catalog; called by admin on a
\* pending request it sets status rejected, reviewedBy, reviewedAt and
\* comments on that one request and changes nothing else in the ledger.
C14_RejectFrame ==
  [][ NextIs("rejectChangeRequest") =>
        /\ services' = services
        /\ ( role = "admin" /\ statusOf(last'.args[1]) = "pending" ) =>
             LET r == last'.args[1]
             IN  /\ DOMAIN changeRequests' = DOMAIN changeRequests
                 /\ \A o \in DOMAIN changeRequests \ {r} :
                      changeRequests'[o] = changeRequests[o]
                 /\ changeRequests'[r] =
                      [changeRequests[r] EXCEPT !.status = "rejected",
                                                !.reviewedBy = session.displayName,
                                                !.reviewedAt = now,
                                                !.comments = last'.args[2]]
                 /\ changeRequests'[r].reviewedBy # Undefined ]_vars

\* admin has just rejected, with a comment, a request for a value the
\* catalog does not hold
C14_Witness ==
  /\ LastWas("rejectChangeRequest")
  /\ last.alert = "Change rejected"
  /\ role = "admin"
  /\ last.args[1] \in DOMAIN changeRequests
  /\ LET r == changeRequests[last.args[1]]
     IN  /\ r.status = "rejected"
         /\ r.comments = "Wrong code."
         /\ r.reviewedAt = now - 1
         /\ r.serviceId \in DOMAIN services
         /\ services[r.serviceId].telcos[r.field[2]][r.field[3]] # r.newValue

\* C15: setTelcoField under role admin on a service that exists writes the
\* value into the catalog leaf at once, stamps the service's lastUpdated with
\* the time of the edit, changes nothing else in the catalog, and leaves the
\* ledger, any draft or pending request for the same field included, as it was.
C15_AdminEditBypassesLedger ==
  [][ ( /\ NextIs("setTelcoField")
        /\ role = "admin"
        /\ last'.args[1] \in DOMAIN services )
      => LET id == last'.args[1]
             telco == last'.args[2]
             key == last'.args[3]
             value == last'.args[4]
         IN  /\ changeRequests' = changeRequests
             /\ DOMAIN services' = DOMAIN services
             /\ services'[id].telcos[telco][key] = value
             /\ services'[id].lastUpdated = now
             /\ services'[id].lastUpdated > services[id].lastUpdated
             /\ services' = [services EXCEPT ![id].telcos[telco][key] = value,
                                             ![id].lastUpdated = services'[id].lastUpdated]
     ]_vars

\* admin has just typed a value into a field for which the ledger holds a
\* draft or pending request asking for another value
C15_Witness ==
  /\ LastWas("setTelcoField")
  /\ role = "admin"
  /\ last.args[1] \in DOMAIN services
  /\ services[last.args[1]].telcos[last.args[2]][last.args[3]] = last.args[4]
  /\ services[last.args[1]].lastUpdated = now - 1
  /\ \E r \in DOMAIN changeRequests :
       /\ changeRequests[r].serviceId = last.args[1]
       /\ changeRequests[r].field = FieldPath(last.args[2], last.args[3])
       /\ changeRequests[r].status \in Live
       /\ changeRequests[r].newValue # last.args[4]
       /\ changeRequests[r].oldValue # last.args[4]

\* C16: importing, as admin, the full export of the catalog gives a catalog
\* whose full export is the same file: the same active services under the
\* same ids with the same display names and the same eight leaves; inactive
\* services and guidance notes are not brought back.
C16_ExportImportRoundTrip ==
  [][ ( /\ NextIs("handleImport")
        /\ role = "admin"
        /\ last'.args[1] = JsonObject(toOriginalSchema(services)) )
      => /\ last'.alert = "Import successful."
         /\ toOriginalSchema(services') = toOriginalSchema(services)
         /\ toOriginalSchema(normalizeImported(toOriginalSchema(services), now))
              = toOriginalSchema(services)
         /\ DOMAIN services' = { k \in DOMAIN services : services[k].active }
         /\ \A k \in DOMAIN services' :
              /\ services'[k].service_id = k
              /\ services'[k].service_name = services[k].service_name
              /\ services'[k].telcos = services[k].telcos
              /\ services'[k].active
              /\ services'[k].description = Undefined ]_vars

\* admin has just imported the file the catalog exports to: the first import
\* of the run, it brought a service with an MTN code and one without
C16_Witness ==
  /\ LastWas("handleImport")
  /\ role = "admin"
  /\ last.alert = "Import successful."
  /\ now = 2
  /\ last.args[1] = JsonObject(toOriginalSchema(services))
  /\ \E a, b \in DOMAIN services :
       /\ services[a].telcos["mtn"].code # ""
       /\ services[b].telcos["mtn"].code = ""
       /\ services[a].lastUpdated = 1

\* C17: importing a subset object under network role N patches only N's
\* leaves: the set of services and every service's id, display name,
\* description, active flag and other networks' leaves stay as they were, and
\* a service id of the subset that the catalog lacks is skipped, the rest of
\* the subset being applied.
C17_SubsetTouchesOnlyNetwork ==
  [][ ( /\ NextIs("handleImport")
        /\ role \in TELCOS
        /\ last'.args[1].kind = "object" )
      => LET subset == last'.args[1].entries
         IN  /\ last'.alert = "Import successful."
             /\ DOMAIN services' = DOMAIN services
             /\ \A k \in DOMAIN services :
                  /\ services'[k].service_id = services[k].service_id
                  /\ services'[k].service_name = services[k].service_name
                  /\ services'[k].description = services[k].description
                  /\ services'[k].active = services[k].active
                  /\ \A t \in TELCOS \ {role} :
                       services'[k].telcos[t] = services[k].telcos[t]
                  /\ (k \in DOMAIN subset /\ Has(subset[k], "code")) =>
                       services'[k].telcos[role].code = subset[k]["code"]
                  /\ (k \in DOMAIN subset /\ Has(subset[k], "explanation")) =>
                       services'[k].telcos[role].explanation = subset[k]["explanation"]
     ]_vars

\* the identifiers the clients send, trimmed and lowercased
Canonical(str) ==
  CASE str = " Check_Balance " -> "check_balance"
    [] str = " MTN" -> "mtn"
    [] str = "GLO " -> "glo"
    [] str = " Send_Money " -> "send_money"
    [] OTHER -> str

\* C18: lookup(service, network), both trimmed and lowercased first, answers
\* 404 if the service is not in the dataset, else 400 if the network is not
\* one of the four, else 404 if the service has no record for the network,
\* else 200 with exactly the stored code and explanation.
C18_LookupAnswers ==
  LastWas("lookup") =>
    LET sKey == Canonical(last.args[1])
        nKey == Canonical(last.args[2])
    IN  IF sKey \notin DOMAIN data THEN response.status = 404
        ELSE IF nKey \notin TELCOS THEN response.status = 400
        ELSE IF nKey \notin DOMAIN data[sKey] THEN response.status = 404
        ELSE response = Reply(200, data[sKey][nKey])

\* the number of places of a sequence holding the value
Count(seq, value) == Cardinality({ i \in DOMAIN seq : seq[i] = value })

\* C19: services(network) answers 200 with the sorted display names: those
\* of all services without a network, and with one exactly those of the
\* services that hold a record under the normalized network, whatever the
\* string.
C19_ListedNames ==
  LastWas("services") =>
    LET network == last.args[1]
        nKey == Canonical(network)
        expected ==
          IF network = NoNetwork THEN named(data)
          ELSE { k \in named(data) : nKey # "service_name" /\ Has(data[k], nKey) }
        names == response.body
    IN  /\ response.status = 200
        /\ Len(names) = Cardinality(expected)
        /\ \A k \in expected :
             Count(names, data[k]["service_name"])
               = Cardinality({ j \in expected :
                                 data[j]["service_name"] = data[k]["service_name"] })
        /\ \A i, j \in DOMAIN names : i < j => ~sortsBefore(names[j], names[i])

\* C20: compare(service) answers 404 if the normalized service is not in the
\* dataset, else 200 with exactly the keys mtn, telecel, airteltigo, glo,
\* each the network's stored code, or null where the service has no record
\* (or the record no code).
C20_CompareAnswers ==
  LastWas("compare") =>
    LET sKey == Canonical(last.args[1])
    IN  IF sKey \notin DOMAIN data THEN response.status = 404
        ELSE /\ response.status = 200
             /\ DOMAIN response.body = TELCOS
             /\ \A nKey \in TELCOS :
                  response.body[nKey] =
                    IF Has(data[sKey], nKey) /\ Has(data[sKey][nKey], "code")
                    THEN data[sKey][nKey]["code"] ELSE Null

\* C21: the admin CRUD errors leave the stored dataset unchanged: POST data
\* without service_id answers 400, POST data with an id that, normalized, is
\* already in the dataset answers 409, PUT and DELETE data/:service for a
\* service that is not in the dataset answer 404; and in each of these cases
\* the dataset after the request is the dataset before it.  (Stated for the
\* requests whose payload parses.)
C21_CrudErrorsLeaveDataset ==
  [][ /\ ( /\ NextIs("postData")
           /\ last'.args[1].kind = "json"
           /\ ~Has(last'.args[1].value, "service_id") ) =>
          ( response'.status = 400 /\ data' = data )
      /\ ( /\ NextIs("postData")
           /\ Has(last'.args[1].value, "service_id")
           /\ Canonical(last'.args[1].value["service_id"]) \in DOMAIN data ) =>
          ( response'.status = 409 /\ data' = data )
      /\ ( /\ NextIs("putData")
           /\ last'.args[2].kind = "json"
           /\ Canonical(last'.args[1]) \notin DOMAIN data ) =>
          ( response'.status = 404 /\ data' = data )
      /\ ( /\ NextIs("deleteData")
           /\ Canonical(last'.args[1]) \notin DOMAIN data ) =>
          ( response'.status = 404 /\ data' = data ) ]_vars

\* a request with a writing method was handled by the named deployment
Wrote(deployment) == NextIs(deployment) /\ last'.args[1].method \in WriteMethods

ReadEndpoint(req) ==
  /\ req.method = "GET"
  /\ \/ Len(req.path) = 3 /\ req.path[1] = "lookup"
     \/ req.path = <<"services">>
     \/ Len(req.path) = 2 /\ req.path[1] = "compare"

KeyOf(call) == call.args[1]
Parses(call) ==
  \A i \in DOMAIN call.args :
    (call.op \in {"securePutData", "securePostData"} /\ i = Len(call.args) - 1) =>
      call.args[i].kind # "malformed"

\* C23: on the secure server the write gate precedes every /api/data
\* handler: while ENABLE_WRITE_OPERATIONS is not 'true', every GET, POST, PUT
\* and DELETE on /api/data answers 403 and leaves the dataset; when it is
\* 'true' and API_KEY is set, a request whose x-api-key header differs from
\* API_KEY answers 401 and leaves the dataset.  (Stated for the requests
\* whose payload parses.)
C23_WriteGate ==
  [][ ( /\ last'.op \in {"secureGetData", "securePutData", "securePostData", "secureDeleteData"}
        /\ Parses(last') ) =>
      /\ env.ENABLE_WRITE_OPERATIONS # "true" =>
           ( response'.status = 403 /\ data' = data )
      /\ ( /\ env.ENABLE_WRITE_OPERATIONS = "true"
           /\ env.API_KEY # Undefined
           /\ KeyOf(last') # env.API_KEY ) =>
           ( response'.status = 401 /\ data' = data ) ]_vars

\* C24: after replaceAllData(services, onlyActive) has run to completion
\* against a reachable full server, the server's dataset is exactly the
\* API-format projection of the selected services (all of them, or the active
\* ones when onlyActive is true), keyed by their service ids, whatever the
\* server held before.
C24_ReplacedExactly ==
  [][ ( NextIs("replaceAllData") /\ last'.args[2] ) =>
        LET onlyActive == last'.args[1]
            selected == { k \in DOMAIN services : ~onlyActive \/ services[k].active }
        IN  /\ DOMAIN data' = { services[k].service_id : k \in selected }
            /\ \A k \in selected :
                 data'[services[k].service_id] =
                   [service_name |-> services[k].service_name,
                    mtn          |-> services[k].telcos.mtn,
                    telecel      |-> services[k].telcos.telecel,
                    airteltigo   |-> services[k].telcos.airteltigo,
                    glo          |-> services[k].telcos.glo] ]_vars

\* C26: a bulk draft action takes effect on every draft of the service:
\* after 'Submit for Approval' all drafts the service had are pending in the
\* ledger (in memory and as persisted, which are written together), and after
\* a confirmed 'Cancel Changes' all of them are gone.
C26_BulkReachesEveryDraft ==
  [][ /\ NextIs("submitForApproval") =>
           \A r \in getDraftChanges(last'.args[1]) :
             r \in DOMAIN changeRequests' /\ changeRequests'[r].status = "pending"
      /\ ( NextIs("cancelChanges") /\ last'.args[2] ) =>
           \A r \in getDraftChanges(last'.args[1]) : r \notin DOMAIN changeRequests' ]_vars

\* C27: referential integrity of live requests: in every reachable state each
\* request with status draft or pending has a serviceId that is a key of the
\* catalog.
C27_LiveRequestsReferToServices ==
  \A r \in DOMAIN changeRequests :
    changeRequests[r].status \in Live => changeRequests[r].serviceId \in DOMAIN services

\* the file is one the import rejects under the role: for admin a root that
\* is no plain object, for a representative a subset with an entry whose
\* service cannot be read
Rejected(json) ==
  \/ role = "admin" /\ json.kind # "object"
  \/ /\ role \in TELCOS
     /\ \E service_id \in DOMAIN json.entries :
          service_id \in ObjectPrototypeKeys \ DOMAIN services

\* C30: a failed import leaves the state unchanged: when the imported JSON is
\* rejected, under the admin's full import or a representative's subset
\* import, the import reports its failure and the catalog (which persist()
\* writes to memory and to localStorage together), the ledger and the
\* versions are the same as before the import.
C30_FailedImportChangesNothing ==
  [][ ( NextIs("handleImport") /\ (Rejected(last'.args[1]) \/ last'.alert = "Import failed") ) =>
        /\ last'.alert = "Import failed"
        /\ services' = services
        /\ changeRequests' = changeRequests
        /\ versions' = versions ]_vars

\* the admin picked a file whose root is an array and the import failed
C30_Witness ==
  /\ LastWas("handleImport")
  /\ role = "admin"
  /\ last.args[1].kind = "array"
  /\ last.alert = "Import failed"

\* C28: an admin rename (setField with field service_id and a new value)
\* transplants exactly one entry: afterwards the entry is stored under the
\* new key with service_id equal to that key and otherwise the same content
\* (but for the time of the update), the old key is absent, every other
\* entry of the catalog is unchanged, and the number of services is the same
\* as before, for every new id including one used by another service.
C28_RenameTransplantsOneEntry ==
  [][ ( /\ NextIs("setField")
        /\ role = "admin"
        /\ last'.args[2] = "service_id"
        /\ last'.args[1] \in DOMAIN services
        /\ last'.args[3] # last'.args[1] ) =>
        LET id == last'.args[1]
            value == last'.args[3]
        IN  /\ value \in DOMAIN services'
            /\ services'[value] =
                 [services[id] EXCEPT !.service_id = value,
                                      !.lastUpdated = services'[value].lastUpdated]
            /\ id \notin DOMAIN services'
            /\ \A k \in DOMAIN services \ {id} :
                 k \in DOMAIN services' /\ services'[k] = services[k]
            /\ Cardinality(DOMAIN services') = Cardinality(DOMAIN services) ]_vars

====
